---- MODULE Spec2Model ----
(***************************************************************************)
(* Model of the ollama-chatbot repository.                                 *)
(*                                                                         *)
(*  - the TTS bridge, POST /api/tts (route handler, child process events)  *)
(*    is the specification SpecTTS, and SpecTTSLive with a child that      *)
(*    emits 'close' or 'error' in the end;                                 *)
(*  - the chat controller, components/Chatbot.tsx (conversation state,     *)
(*    model requests, TTS tasks, audio elements) is the specification      *)
(*    Spec; SpecChat, SpecPrompt, SpecPlay, SpecTeardown and SpecLeave are *)
(*    the same component with a user who does less (no manual play, no     *)
(*    auto-play) or other things (moves the slider, leaves the page) and,  *)
(*    for the last three, a model that answers every request.              *)
(*                                                                         *)
(* Text is a sequence of pieces, a piece is a character or a run of        *)
(* characters that is never taken apart; "U+00E9" and "U+FFFD" stand for   *)
(* the two non-ASCII characters the model uses.  A byte is a string as     *)
(* well: an ASCII character is its own byte, "0xC3" "0xA9" is the UTF-8    *)
(* encoding of U+00E9.  A JavaScript value is a record of its type t and   *)
(* its text v.                                                             *)
(***************************************************************************)
EXTENDS Integers, Sequences, FiniteSets, Bags, TLC

VARIABLES
    \* ---- TTS bridge (src/unnamed/part_000) ----
    srvPc,        \* position of the request: "idle", "pending", "done", "rejected"
    reqBody,      \* the body of the request the handler received, NoBody before
    spawnArgs,    \* the arguments spawn() got, <<>> when nothing was spawned
    child,        \* "none", "live", "errored", "closed"
    written,      \* bytes the child has written to its standard output
    stdout,       \* the handler's `stdout` string
    exitCode,     \* the code 'close' carried, "unset" before
    response,     \* the HTTP response of the handler, NoResponse before
    \* ---- chat controller (src/src/components/Chatbot.tsx) ----
    mounted,        \* the component is mounted
    now,            \* the last value Date.now() returned
    selectedModel,  \* state selectedModel, <<>> when none is chosen
    messages,       \* state messages
    input,          \* state input
    loading,        \* state loading
    playingAudio,   \* state playingAudio, Null or a message id
    generatingAudio,\* state generatingAudio, Null or a message id
    autoPlay,       \* state autoPlay
    responseLength, \* state responseLength[0]
    audioRefs,      \* audioRefs.current: message id -> index into audios
    audios,         \* every Audio element created: [playing, currentTime, revoked]
    evt,            \* a send event dispatched to the component and not yet handled
    modelReq,       \* the sendMessage call awaiting /api/generate, NoReq when none
    timers,         \* pending auto-play timers
    ttsTasks        \* the bag of generateTTS calls that have not returned; late
                    \* marks a call made while an earlier call for the same
                    \* message had not returned

srvVars == <<srvPc, reqBody, spawnArgs, child, written, stdout, exitCode, response>>

uiVars == <<mounted, now, selectedModel, messages, input, loading, playingAudio,
            generatingAudio, autoPlay, responseLength, audioRefs, audios, evt,
            modelReq, timers, ttsTasks>>

vars == <<srvVars, uiVars>>

\* ------------------------------------------------------------------ bounds
MaxOut == 4      \* bytes a child writes at most
MaxChunk == 2    \* bytes of one 'data' chunk at most
MaxSends == 2    \* messages the user sends at most
MaxAudios == 3   \* Audio elements at most, created or awaited from /api/tts

\* ------------------------------------------------------- JavaScript values
Undefined == [t |-> "undefined", v |-> <<>>]
JNull     == [t |-> "null", v |-> <<>>]
JStr(s)   == [t |-> "string", v |-> s]
JNum(s)   == [t |-> "number", v |-> s]
JBool(s)  == [t |-> "boolean", v |-> s]
JArr      == [t |-> "object", v |-> <<"[", "]">>]

\* !x of JavaScript
Falsy(x) ==
    \/ x.t \in {"undefined", "null"}
    \/ x.t = "string" /\ x.v = <<>>
    \/ x.t = "number" /\ x.v = <<"0">>
    \/ x.t = "boolean" /\ x.v = <<"false">>

\* typeof x
TypeOf(x) == IF x.t = "null" THEN "object" ELSE x.t

\* ---------------------------------------------------------- text and bytes
Whitespace == {" ", "\n"}

RECURSIVE TrimStart(_)
TrimStart(s) ==
    IF s # <<>> /\ Head(s) \in Whitespace THEN TrimStart(Tail(s)) ELSE s

RECURSIVE TrimEnd(_)
TrimEnd(s) ==
    IF s # <<>> /\ s[Len(s)] \in Whitespace
    THEN TrimEnd(SubSeq(s, 1, Len(s) - 1))
    ELSE s

\* String.prototype.trim
Trim(s) == TrimEnd(TrimStart(s))

\* String.prototype.split('\n'): the pieces between the separators
RECURSIVE SplitLines(_, _)
SplitLines(s, cur) ==
    IF s = <<>> THEN <<cur>>
    ELSE IF Head(s) = "\n" THEN <<cur>> \o SplitLines(Tail(s), <<>>)
    ELSE SplitLines(Tail(s), Append(cur, Head(s)))

Split(s) == SplitLines(s, <<>>)

\* Buffer.prototype.toString(): UTF-8 decoding of ONE chunk; a lead byte the
\* chunk does not complete and a continuation byte without a lead each
\* become U+FFFD
RECURSIVE BufferToString(_)
BufferToString(b) ==
    IF b = <<>> THEN <<>>
    ELSE IF Head(b) = "0xC3"
         THEN IF Len(b) >= 2 /\ b[2] = "0xA9"
              THEN <<"U+00E9">> \o BufferToString(SubSeq(b, 3, Len(b)))
              ELSE <<"U+FFFD">> \o BufferToString(Tail(b))
    ELSE IF Head(b) = "0xA9" THEN <<"U+FFFD">> \o BufferToString(Tail(b))
    ELSE <<Head(b)>> \o BufferToString(Tail(b))

\* --------------------------------------------------------------- JSON.parse
\* The values of this model's JSON texts: a number written with the digit 1,
\* or a string without escapes.  Everything else is a SyntaxError.
ParseError == [t |-> "SyntaxError", v |-> <<>>]

IsNumberText(s) == s # <<>> /\ \A i \in 1..Len(s) : s[i] = "1"

IsStringText(s) ==
    /\ Len(s) >= 2
    /\ s[1] = "\"" /\ s[Len(s)] = "\""
    /\ \A i \in 2..(Len(s) - 1) : s[i] \notin {"\"", "\n"}

JSONparse(s) ==
    LET body == Trim(s) IN
    IF IsNumberText(body) THEN [t |-> "number", v |-> body]
    ELSE IF IsStringText(body)
         THEN [t |-> "string", v |-> SubSeq(body, 2, Len(body) - 1)]
    ELSE ParseError

\* ------------------------------------------------------------ HTTP responses
NoResponse == [status |-> 0, tag |-> "none", error |-> "", value |-> ParseError]

ErrorResponse(code, msg) ==
    [status |-> code, tag |-> "error", error |-> msg, value |-> ParseError]

\* NextResponse.json(result): status 200, the body is the value
JsonResponse(val) == [status |-> 200, tag |-> "json", error |-> "", value |-> val]

\* ==========================================================================
\* TTS bridge: POST /api/tts
\* ==========================================================================
Bytes == {"\n", " ", "1", "x", "\"", "0xC3", "0xA9"}

Chunks == UNION {[1..n -> Bytes] : n \in 1..MaxChunk}

\* What the body of a request can be: no JSON at all, the JSON value null, a
\* JSON value without properties, or an object with any text and voice.
Texts == {Undefined, JNull, JStr(<<>>), JStr(<<" ">>), JStr(<<"h", "i">>),
          JNum(<<"0">>), JNum(<<"5">>), JBool(<<"true">>), JArr}

Voices == {Undefined, JStr(<<"default">>), JStr(<<"voices/a.wav">>), JNum(<<"5">>)}

NoBody == [kind |-> "none", text |-> Undefined, voice |-> Undefined]

Bodies ==
    {[kind |-> k, text |-> Undefined, voice |-> Undefined] :
        k \in {"unparsable", "null", "primitive"}}
    \cup {[kind |-> "object", text |-> t, voice |-> v] : t \in Texts, v \in Voices}

\* const { text, voice } = await request.json() throws on a body that is not
\* JSON and on null
ReadBodyThrows(body) == body.kind \in {"unparsable", "null"}

\* (mutant) the typeof test left out
TextRejectedFalsyOnly(text) == Falsy(text)

\* !text || typeof text !== 'string'
TextRejected(text) == Falsy(text) \/ TypeOf(text) # "string"

\* voice === 'default' ? '' : voice || ''
VoicePath(voice) ==
    IF voice = JStr(<<"default">>) THEN JStr(<<>>)
    ELSE IF Falsy(voice) THEN JStr(<<>>)
    ELSE voice

\* (mutant) the last call to resolve() wins
ResolveLastWins(cur, r) == r

\* (mutant) resolve() is never called
ResolveNever(cur, r) == cur

\* resolve(): a promise settles once, later calls change nothing
Resolve(cur, r) == IF cur = NoResponse THEN r ELSE cur

\* (mutant) the first line is parsed, not the last
OnCloseFirstLine(code, out) ==
    IF code # "0"
    THEN ErrorResponse(500, "TTS generation failed")
    ELSE LET lines == Split(Trim(out))
             result == JSONparse(Trim(lines[1]))
         IN IF result = ParseError
            THEN ErrorResponse(500, "Invalid response from TTS service")
            ELSE JsonResponse(result)

\* (mutant) the exit code is looked at only when the output does not parse
OnCloseParseFirst(code, out) ==
    LET lines == Split(Trim(out))
        result == JSONparse(Trim(lines[Len(lines)]))
    IN IF result # ParseError THEN JsonResponse(result)
       ELSE IF code # "0" THEN ErrorResponse(500, "TTS generation failed")
       ELSE ErrorResponse(500, "Invalid response from TTS service")

\* the 'close' handler
OnClose(code, out) ==
    IF code # "0"
    THEN ErrorResponse(500, "TTS generation failed")
    ELSE LET lines == Split(Trim(out))
             lastLine == Trim(lines[Len(lines)])
             result == JSONparse(lastLine)
         IN IF result = ParseError
            THEN ErrorResponse(500, "Invalid response from TTS service")
            ELSE JsonResponse(result)

\* the 'error' handler
OnError == ErrorResponse(500, "Failed to start TTS service")

SrvInit ==
    /\ srvPc = "idle"
    /\ reqBody = NoBody
    /\ spawnArgs = <<>>
    /\ child = "none"
    /\ written = <<>>
    /\ stdout = <<>>
    /\ exitCode = "unset"
    /\ response = NoResponse

\* POST: the handler up to its return
Post(body) ==
    /\ UNCHANGED uiVars
    /\ srvPc = "idle"
    /\ reqBody' = body
    /\ UNCHANGED <<written, stdout, exitCode>>
    /\ IF ReadBodyThrows(body)
       THEN /\ response' = ErrorResponse(500, "Internal server error")
            /\ srvPc' = "done"
            /\ UNCHANGED <<spawnArgs, child>>
       ELSE IF TextRejected(body.text)
       THEN /\ response' = ErrorResponse(400, "Text is required")
            /\ srvPc' = "done"
            /\ UNCHANGED <<spawnArgs, child>>
       ELSE IF VoicePath(body.voice).t # "string"
       THEN \* spawn() throws on an argument that is no string: the promise
            \* the handler returns is rejected, outside its try block
            /\ srvPc' = "rejected"
            /\ UNCHANGED <<spawnArgs, child, response>>
       ELSE /\ spawnArgs' = <<body.text, VoicePath(body.voice)>>
            /\ child' = "live"
            /\ srvPc' = "pending"
            /\ UNCHANGED response

\* stdout 'data'
StdoutData(chunk) ==
    /\ UNCHANGED uiVars
    /\ child = "live"
    /\ Len(written) + Len(chunk) <= MaxOut
    /\ written' = written \o chunk
    /\ stdout' = stdout \o BufferToString(chunk)
    /\ UNCHANGED <<srvPc, reqBody, spawnArgs, child, exitCode, response>>

\* 'close' of a child that ran: an exit code, or null when a signal ended it
ChildClose(code) ==
    /\ UNCHANGED uiVars
    /\ child = "live"
    /\ child' = "closed"
    /\ exitCode' = code
    /\ response' = Resolve(response, OnClose(code, stdout))
    /\ srvPc' = "done"
    /\ UNCHANGED <<reqBody, spawnArgs, written, stdout>>

\* 'error': the child could not be started
ChildError ==
    /\ UNCHANGED uiVars
    /\ child = "live"
    /\ written = <<>>
    /\ child' = "errored"
    /\ response' = Resolve(response, OnError)
    /\ srvPc' = "done"
    /\ UNCHANGED <<reqBody, spawnArgs, written, stdout, exitCode>>

\* 'close' of a child that could not be started follows its 'error'
ChildCloseAfterError ==
    /\ UNCHANGED uiVars
    /\ child = "errored"
    /\ child' = "closed"
    /\ exitCode' = "-2"
    /\ response' = Resolve(response, OnClose("-2", stdout))
    /\ srvPc' = "done"
    /\ UNCHANGED <<reqBody, spawnArgs, written, stdout>>

SrvNext ==
    \/ \E body \in Bodies : Post(body)
    \/ \E chunk \in Chunks : StdoutData(chunk)
    \/ \E code \in {"0", "1", "null"} : ChildClose(code)
    \/ ChildError
    \/ ChildCloseAfterError


\* ==========================================================================
\* Chat controller: components/Chatbot.tsx
\* ==========================================================================
Null == 0

Str(s) == [t |-> "string", v |-> s]

\* what the user can have typed
Inputs == {<<>>, <<" ">>, <<" ", "h", "i">>}

\* what the model can answer
Responses == {<<"o", "k">>}

NoModel == <<>>

Models == {<<"llama3">>}

ErrorText == <<"Error: Failed to get response from Ollama. Make sure Ollama is running.">>

\* (mutant) the short band ends before 3
LengthInstructionOffByOne(lengthValue) ==
    IF lengthValue < 3
    THEN <<"Please provide a short, concise response (1-2 sentences). ">>
    ELSE IF lengthValue <= 7
    THEN <<"Please provide a medium-length response (3-5 sentences). ">>
    ELSE <<"Please provide a detailed, comprehensive response (6+ sentences). ">>

\* lines 186-195
LengthInstruction(lengthValue) ==
    IF lengthValue <= 3
    THEN <<"Please provide a short, concise response (1-2 sentences). ">>
    ELSE IF lengthValue <= 7
    THEN <<"Please provide a medium-length response (3-5 sentences). ">>
    ELSE <<"Please provide a detailed, comprehensive response (6+ sentences). ">>

\* lengthInstruction + input
EnhancedPrompt(lengthValue, text) == LengthInstruction(lengthValue) \o text

NoReply == [kind |-> "none", response |-> Undefined]

Replies ==
    {[kind |-> k, response |-> Undefined] : k \in {"network", "unparsable", "noResponseField"}}
    \cup {[kind |-> "ok", response |-> Str(r)] : r \in Responses}

NoReq == [prompt |-> <<>>, model |-> NoModel, autoPlay |-> FALSE, playingAudio |-> Null,
          reply |-> NoReply]

Message(id, role, content) == [id |-> id, role |-> role, content |-> content]

\* a state setter: nothing is left to update once the component is unmounted
SetState(old, new) == IF mounted THEN new ELSE old

\* the cleanup of the effect, lines 46-53: every registered audio is paused
\* and its object URL revoked
CleanedUp(as) ==
    [a \in DOMAIN as |->
        IF \E id \in DOMAIN audioRefs : audioRefs[id] = a
        THEN [as[a] EXCEPT !.playing = FALSE, !.revoked = TRUE]
        ELSE as[a]]

UiInit ==
    /\ mounted = TRUE
    /\ now = 0
    /\ selectedModel = NoModel
    /\ messages = <<>>
    /\ input = <<>>
    /\ loading = FALSE
    /\ playingAudio = Null
    /\ generatingAudio = Null
    /\ autoPlay = FALSE
    /\ responseLength = 5
    /\ audioRefs = <<>>
    /\ audios = <<>>
    /\ evt = "none"
    /\ modelReq = NoReq
    /\ timers = {}
    /\ ttsTasks = EmptyBag

UserMessages == {i \in 1..Len(messages) : messages[i].role = "user"}

\* the user has messages left to send, or awaits the answer to the last
Chatting == Cardinality(UserMessages) < MaxSends \/ loading

\* Select onValueChange={setSelectedModel}
SelectModel(m) ==
    /\ UNCHANGED srvVars
    /\ mounted /\ evt = "none"
    /\ selectedModel # m
    /\ selectedModel' = m
    /\ UNCHANGED <<mounted, now, messages, input, loading, playingAudio, generatingAudio,
                   autoPlay, responseLength, audioRefs, audios, evt, modelReq, timers,
                   ttsTasks>>

\* (mutant) the input and the send button are never disabled
DisabledNever(isLoading) == FALSE

\* disabled={loading}, lines 409 and 411
Disabled(isLoading) == isLoading

\* Input onChange: setInput(e.target.value); the input is disabled while loading
SetInput(text) ==
    /\ UNCHANGED srvVars
    /\ mounted /\ evt = "none"
    /\ ~Disabled(loading) /\ Chatting
    /\ input # text
    /\ input' = text
    /\ UNCHANGED <<mounted, now, selectedModel, messages, loading, playingAudio,
                   generatingAudio, autoPlay, responseLength, audioRefs, audios, evt,
                   modelReq, timers, ttsTasks>>

\* Slider onValueChange={setResponseLength}, min 1, max 10, step 1
SetResponseLength(v) ==
    /\ UNCHANGED srvVars
    /\ mounted /\ evt = "none"
    /\ Chatting
    /\ responseLength # v
    /\ responseLength' = v
    /\ UNCHANGED <<mounted, now, selectedModel, messages, input, loading, playingAudio,
                   generatingAudio, autoPlay, audioRefs, audios, evt, modelReq, timers,
                   ttsTasks>>

\* the auto-play button: setAutoPlay(!autoPlay)
ToggleAutoPlay ==
    /\ UNCHANGED srvVars
    /\ mounted /\ evt = "none"
    /\ Chatting
    /\ autoPlay' = ~autoPlay
    /\ UNCHANGED <<mounted, now, selectedModel, messages, input, loading, playingAudio,
                   generatingAudio, responseLength, audioRefs, audios, evt, modelReq,
                   timers, ttsTasks>>

\* Enter in the input (disabled while loading) or a click on the send button
\* (disabled while loading or without a model): the event is dispatched
DispatchSend ==
    /\ UNCHANGED srvVars
    /\ mounted /\ evt = "none"
    /\ ~Disabled(loading)
    /\ Cardinality(UserMessages) < MaxSends
    /\ evt' = "send"
    /\ UNCHANGED <<mounted, now, selectedModel, messages, input, loading, playingAudio,
                   generatingAudio, autoPlay, responseLength, audioRefs, audios, modelReq,
                   timers, ttsTasks>>

\* (mutant) the input is not trimmed
SendRejectedUntrimmed(text, model) == text = <<>> \/ model = NoModel

\* !input.trim() || !selectedModel, line 174
SendRejected(text, model) == Trim(text) = <<>> \/ model = NoModel

\* sendMessage up to its await of fetch, lines 173-210.  Date.now() is read
\* two milliseconds or more after it was last read (the message was typed in
\* between).
SendMessage ==
    /\ UNCHANGED srvVars
    /\ evt = "send"
    /\ evt' = "none"
    /\ IF SendRejected(input, selectedModel)
       THEN UNCHANGED <<now, messages, input, loading, modelReq>>
       ELSE /\ now' = now + 2
            /\ messages' = Append(messages, Message(now', "user", Str(input)))
            /\ input' = <<>>
            /\ loading' = TRUE
            /\ modelReq' = [prompt |-> EnhancedPrompt(responseLength, input),
                            model |-> selectedModel,
                            autoPlay |-> autoPlay,
                            playingAudio |-> playingAudio,
                            reply |-> NoReply]
    /\ UNCHANGED <<mounted, selectedModel, playingAudio, generatingAudio, autoPlay,
                   responseLength, audioRefs, audios, timers, ttsTasks>>

\* /api/generate answers, or the request fails
ModelReplies(reply) ==
    /\ UNCHANGED srvVars
    /\ evt = "none"
    /\ modelReq # NoReq
    /\ modelReq.reply = NoReply
    /\ modelReq' = [modelReq EXCEPT !.reply = reply]
    /\ UNCHANGED <<mounted, now, selectedModel, messages, input, loading, playingAudio,
                   generatingAudio, autoPlay, responseLength, audioRefs, audios, evt,
                   timers, ttsTasks>>

\* fetch or response.json() rejects: the catch block runs, lines 228-235
ReplyThrows(reply) == reply.kind \in {"network", "unparsable"}

\* (mutant) auto-play is handled after the catch block as well
AutoPlayTimersAlways(thrown, req, content, id) ==
    IF req.autoPlay
    THEN timers \cup {[text |-> content, id |-> id, playingAudio |-> req.playingAudio]}
    ELSE timers

\* if (autoPlay) setTimeout(...), lines 222-227, with the autoPlay and the
\* generateTTS of the render sendMessage was called in
AutoPlayTimers(thrown, req, content, id) ==
    IF ~thrown /\ req.autoPlay
    THEN timers \cup {[text |-> content, id |-> id, playingAudio |-> req.playingAudio]}
    ELSE timers

\* sendMessage after its awaits, lines 212-238; Date.now() is read a
\* millisecond or more after the request was sent.  An assistant message whose
\* content is undefined makes the next render throw (message.content.trim(),
\* line 364), which unmounts the component.
SendMessageResumes ==
    /\ UNCHANGED srvVars
    /\ modelReq # NoReq
    /\ modelReq.reply # NoReply
    /\ evt = "none"
    /\ now' = now + 1
    /\ LET reply == modelReq.reply
           thrown == ReplyThrows(reply)
           content == IF thrown THEN Str(ErrorText) ELSE reply.response
           assistantMessage == Message(now + 2, "assistant", content)
           crash == mounted /\ content.t # "string"
       IN /\ messages' = SetState(messages, Append(messages, assistantMessage))
          /\ timers' = AutoPlayTimers(thrown, modelReq, content, assistantMessage.id)
          /\ loading' = SetState(loading, FALSE)
          /\ mounted' = (mounted /\ ~crash)
          /\ audios' = IF crash THEN CleanedUp(audios) ELSE audios
    /\ modelReq' = NoReq
    /\ UNCHANGED <<selectedModel, input, playingAudio, generatingAudio, autoPlay,
                   responseLength, audioRefs, evt, ttsTasks>>

\* ---- audio ----
\* new Audio(audioUrl), line 111: currentTime is 0 at the start of the audio
\* and 1 past it.
NewAudio == [playing |-> FALSE, currentTime |-> 0, revoked |-> FALSE]

\* audio.play() that the browser allows: the audio plays and leaves time 0
Play(audio) == [audio EXCEPT !.playing = TRUE, !.currentTime = 1]

Task(id, late, pc, captured, a) ==
    [id |-> id, late |-> late, pc |-> pc, playingAudio |-> captured, audio |-> a]

\* a generateTTS call for message id has not returned
InFlight(id) == \E t \in BagToSet(ttsTasks) : t.id = id

\* a task returns / moves on
Without(tasks, task) == tasks (-) SetToBag({task})

Moved(tasks, task, to) == (tasks (-) SetToBag({task})) (+) SetToBag({to})

\* (mutant) the audio is paused and not rewound
StopTTSAudiosNoRewind(as, refs, id) ==
    IF id \in DOMAIN refs
    THEN [as EXCEPT ![refs[id]] = [@ EXCEPT !.playing = FALSE]]
    ELSE as

\* stopTTS, lines 164-171: the audios after stopTTS(id) with the registry refs
StopTTSAudios(as, refs, id) ==
    IF id \in DOMAIN refs
    THEN [as EXCEPT ![refs[id]] = [@ EXCEPT !.playing = FALSE, !.currentTime = 0]]
    ELSE as

\* stopTTS: playingAudio after stopTTS(id)
StopTTSPlaying(cur, refs, id) ==
    IF id \in DOMAIN refs THEN SetState(cur, Null) ELSE cur

\* the calls that await /api/tts
Fetching == [task \in {t \in BagToSet(ttsTasks) : t.pc = "fetch"} |-> ttsTasks[task]]

\* generateTTS(text, messageId) up to its await of fetch, lines 80-95, called
\* from a render in which playingAudio was `captured`.  text.trim() throws on
\* a text that is no string.
GenerateTTS(text, id, captured) ==
    IF text.t # "string" \/ Trim(text.v) = <<>>
    THEN UNCHANGED <<generatingAudio, ttsTasks>>
    ELSE /\ Len(audios) + BagCardinality(Fetching) < MaxAudios
         /\ generatingAudio' = SetState(generatingAudio, id)
         /\ ttsTasks' = ttsTasks (+)
                           SetToBag({Task(id, InFlight(id), "fetch", captured, 0)})

\* the button of an assistant message, lines 354-366
ClickPlay(i) ==
    /\ UNCHANGED srvVars
    /\ mounted /\ evt = "none"
    /\ messages[i].role = "assistant"
    /\ Trim(messages[i].content.v) # <<>>
    /\ generatingAudio # messages[i].id
    /\ IF playingAudio = messages[i].id
       THEN /\ audios' = StopTTSAudios(audios, audioRefs, messages[i].id)
            /\ playingAudio' = StopTTSPlaying(playingAudio, audioRefs, messages[i].id)
            /\ UNCHANGED <<generatingAudio, ttsTasks>>
       ELSE /\ GenerateTTS(messages[i].content, messages[i].id, playingAudio)
            /\ UNCHANGED <<audios, playingAudio>>
    /\ UNCHANGED <<mounted, now, selectedModel, messages, input, loading, autoPlay,
                   responseLength, audioRefs, evt, modelReq, timers>>

\* the auto-play timer of sendMessage fires, lines 224-226
TimerFires(tm) ==
    /\ UNCHANGED srvVars
    /\ tm \in timers
    /\ evt = "none"
    /\ timers' = timers \ {tm}
    /\ GenerateTTS(tm.text, tm.id, tm.playingAudio)
    /\ UNCHANGED <<mounted, now, selectedModel, messages, input, loading, playingAudio,
                   autoPlay, responseLength, audioRefs, audios, evt, modelReq>>

\* generateTTS after its awaits of fetch and response.json(), lines 97-136 and
\* 152-161.  outcome: "allowed" and "blocked" are a reply with success and
\* audio whose play() the browser allows or rejects, "failed" a reply without,
\* "thrown" a failed request or a body that is not JSON.
TTSResumes(task, outcome) ==
    /\ UNCHANGED srvVars
    /\ evt = "none"
    /\ task.pc = "fetch"
    /\ LET a == Len(audios) + 1
           refs == (task.id :> a) @@ audioRefs
           created == Append(audios, NewAudio)
           stops == task.playingAudio # Null /\ task.playingAudio # task.id
           stopped == IF stops
                      THEN StopTTSAudios(created, refs, task.playingAudio)
                      ELSE created
           cleared == IF stops
                      THEN StopTTSPlaying(playingAudio, refs, task.playingAudio)
                      ELSE playingAudio
       IN IF outcome \in {"allowed", "blocked"}
          THEN /\ audioRefs' = refs
               /\ audios' = IF outcome = "allowed"
                            THEN [stopped EXCEPT ![a] = Play(@)]
                            ELSE stopped
               /\ playingAudio' = SetState(cleared, task.id)
               /\ ttsTasks' = Moved(ttsTasks, task,
                                     Task(task.id, task.late,
                                          IF outcome = "allowed" THEN "play" ELSE "playRejected",
                                          task.playingAudio, a))
               /\ UNCHANGED generatingAudio
          ELSE /\ generatingAudio' = SetState(generatingAudio, Null)
               /\ ttsTasks' = Without(ttsTasks, task)
               /\ UNCHANGED <<audioRefs, audios, playingAudio>>
    /\ UNCHANGED <<mounted, now, selectedModel, messages, input, loading, autoPlay,
                   responseLength, evt, modelReq, timers>>

\* (mutant) the play is retried with a running context as well
ContextSuspendedOrRunning(context) == context \in {"suspended", "running"}

\* context.state === 'suspended', line 143
ContextSuspended(context) == context = "suspended"

\* the promise of audio.play() settles, lines 135-151; it is rejected when
\* the browser blocked the play or the audio was paused before it started.
\* context: "throws" (no AudioContext), "running" or "suspended".
PlaySettles(task, context) ==
    /\ UNCHANGED srvVars
    /\ evt = "none"
    /\ task.pc \in {"play", "playRejected"}
    /\ IF task.pc = "play" /\ audios[task.audio].playing
       THEN /\ context = "running"
            /\ generatingAudio' = SetState(generatingAudio, Null)
            /\ ttsTasks' = Without(ttsTasks, task)
            /\ UNCHANGED playingAudio
       ELSE /\ playingAudio' = SetState(playingAudio, Null)
            /\ IF ContextSuspended(context)
               THEN /\ ttsTasks' = Moved(ttsTasks, task, [task EXCEPT !.pc = "resume"])
                    /\ UNCHANGED generatingAudio
               ELSE /\ generatingAudio' = SetState(generatingAudio, Null)
                    /\ ttsTasks' = Without(ttsTasks, task)
    /\ UNCHANGED <<mounted, now, selectedModel, messages, input, loading, autoPlay,
                   responseLength, audioRefs, audios, evt, modelReq, timers>>

\* context.resume() settles, lines 144-150: resumed, the play is retried
ResumeSettles(task, outcome) ==
    /\ UNCHANGED srvVars
    /\ evt = "none"
    /\ task.pc = "resume"
    /\ IF outcome \in {"allowed", "blocked"}
       THEN /\ audios' = IF outcome = "allowed"
                         THEN [audios EXCEPT ![task.audio] = Play(@)]
                         ELSE audios
            /\ ttsTasks' = Moved(ttsTasks, task, [task EXCEPT !.pc = "retry"])
            /\ UNCHANGED generatingAudio
       ELSE /\ generatingAudio' = SetState(generatingAudio, Null)
            /\ ttsTasks' = Without(ttsTasks, task)
            /\ UNCHANGED audios
    /\ UNCHANGED <<mounted, now, selectedModel, messages, input, loading, playingAudio,
                   autoPlay, responseLength, audioRefs, evt, modelReq, timers>>

\* the promise of the retried audio.play() settles, lines 146-161
RetrySettles(task) ==
    /\ UNCHANGED srvVars
    /\ evt = "none"
    /\ task.pc = "retry"
    /\ generatingAudio' = SetState(generatingAudio, Null)
    /\ ttsTasks' = Without(ttsTasks, task)
    /\ UNCHANGED <<mounted, now, selectedModel, messages, input, loading, playingAudio,
                   autoPlay, responseLength, audioRefs, audios, evt, modelReq, timers>>

\* an audio whose play() promise has settled is awaited by no task
Started(a) == \A task \in BagToSet(ttsTasks) :
                 task.audio = a => task.pc \notin {"play", "retry"}

\* a playing audio reaches its end: audio.onended, lines 115-117
AudioEnded(a) ==
    /\ UNCHANGED srvVars
    /\ evt = "none"
    /\ audios[a].playing /\ Started(a)
    /\ audios' = [audios EXCEPT ![a].playing = FALSE]
    /\ playingAudio' = SetState(playingAudio, Null)
    /\ UNCHANGED <<mounted, now, selectedModel, messages, input, loading, generatingAudio,
                   autoPlay, responseLength, audioRefs, evt, modelReq, timers, ttsTasks>>

\* the component is unmounted (the user leaves the page): the cleanup of the
\* effect runs, lines 46-53
Unmount ==
    /\ UNCHANGED srvVars
    /\ mounted /\ evt = "none"
    /\ mounted' = FALSE
    /\ audios' = CleanedUp(audios)
    /\ UNCHANGED <<now, selectedModel, messages, input, loading, playingAudio,
                   generatingAudio, autoPlay, responseLength, audioRefs, evt, modelReq,
                   timers, ttsTasks>>

\* sendMessage and the answer of the model
Sends ==
    \/ SendMessage
    \/ \E reply \in Replies : ModelReplies(reply)
    \/ SendMessageResumes

\* generateTTS after its first await, and the audio elements
Playbacks ==
    \/ \E task \in BagToSet(ttsTasks), outcome \in {"allowed", "blocked", "failed", "thrown"} :
          TTSResumes(task, outcome)
    \/ \E task \in BagToSet(ttsTasks), context \in {"throws", "running", "suspended"} :
          PlaySettles(task, context)
    \/ \E task \in BagToSet(ttsTasks), outcome \in {"allowed", "blocked", "failed"} :
          ResumeSettles(task, outcome)
    \/ \E task \in BagToSet(ttsTasks) : RetrySettles(task)
    \/ \E a \in 1..Len(audios) : AudioEnded(a)

\* auto-play, generateTTS and the audio elements
Sounds ==
    \/ \E tm \in timers : TimerFires(tm)
    \/ Playbacks

\* the user chooses a model, types and sends
Chats ==
    \/ \E m \in Models : SelectModel(m)
    \/ \E text \in Inputs : SetInput(text)
    \/ DispatchSend

Init == SrvInit /\ UiInit

\* The chat controller with a user who chats, switches auto-play and plays
\* and stops messages, and leaves the response-length slider where it is.
Next ==
    \/ Sends
    \/ Sounds
    \/ Chats
    \/ ToggleAutoPlay
    \/ \E i \in 1..Len(messages) : ClickPlay(i)

Spec == Init /\ [][Next]_vars

\* The chat controller with a user who chats and switches auto-play, and
\* hears messages by auto-play only.
NextChat ==
    \/ Sends
    \/ Sounds
    \/ Chats
    \/ ToggleAutoPlay

SpecChat == Init /\ [][NextChat]_vars

\* The chat controller with a user who chats and moves the response-length
\* slider, and leaves auto-play off: no audio is generated.
NextPrompt ==
    \/ Sends
    \/ Chats
    \/ \E v \in 1..10 : SetResponseLength(v)

SpecPrompt == Init /\ [][NextPrompt]_vars

\* a user who chooses a model, types a message and sends it, and a model
\* that answers every request
Talks ==
    \/ \E m \in Models : SelectModel(m)
    \/ \E text \in Inputs : Trim(text) # <<>> /\ SetInput(text)
    \/ DispatchSend
    \/ SendMessage
    \/ \E reply \in Replies : reply.kind = "ok" /\ ModelReplies(reply)
    \/ SendMessageResumes

\* The chat controller with a model that answers, a user who talks and plays
\* and stops messages and leaves auto-play off, a TTS service that answers
\* with audio or with a failure, and a browser that lets audio play (a play
\* fails only when the audio is paused before it started).
NextPlay ==
    \/ Talks
    \/ \E i \in 1..Len(messages) : ClickPlay(i)
    \/ \E task \in BagToSet(ttsTasks), outcome \in {"allowed", "failed"} :
          TTSResumes(task, outcome)
    \/ \E task \in BagToSet(ttsTasks) : PlaySettles(task, "running")
    \/ \E a \in 1..Len(audios) : AudioEnded(a)

SpecPlay == Init /\ [][NextPlay]_vars

\* The same, with a user who leaves the page at some time; requests and
\* audios go on after that.
NextTeardown ==
    \/ NextPlay
    \/ Unmount

\* The chat controller with a model that answers and a user who talks,
\* switches auto-play, hears messages by auto-play only, and leaves the page
\* at some time; requests, timers and audios go on after that.
NextLeave ==
    \/ Talks
    \/ Sounds
    \/ ToggleAutoPlay
    \/ Unmount

SpecLeave == Init /\ [][NextLeave]_vars

SpecTeardown == Init /\ [][NextTeardown]_vars

\* the TTS bridge
SpecTTS == Init /\ [][SrvNext]_vars

\* a child that was spawned emits 'close' or 'error' in the end
ChildEmits ==
    \/ \E code \in {"0", "1", "null"} : ChildClose(code)
    \/ ChildError

SpecTTSLive == SpecTTS /\ WF_vars(ChildEmits)

\* ==========================================================================
\* Properties of the chat controller
\* ==========================================================================
Playing == {a \in 1..Len(audios) : audios[a].playing}

IsBlank(text) == \A i \in 1..Len(text) : text[i] \in {" ", "\n"}

\* the instruction of a response-length setting, by its band
BandInstruction(v) ==
    CASE v \in {1, 2, 3} -> <<"Please provide a short, concise response (1-2 sentences). ">>
      [] v \in 4..7 -> <<"Please provide a medium-length response (3-5 sentences). ">>
      [] v \in {8, 9, 10} -> <<"Please provide a detailed, comprehensive response (6+ sentences). ">>

\* sendMessage sends a request in this step
Sending == modelReq = NoReq /\ modelReq' # NoReq

\* sendMessage handles the answer in this step
Answered == modelReq # NoReq /\ modelReq' = NoReq

\* the messages grow by one message of `role` with `content`
Gains(role, content) ==
    /\ Len(messages') = Len(messages) + 1
    /\ SubSeq(messages', 1, Len(messages)) = messages
    /\ messages'[Len(messages')].role = role
    /\ messages'[Len(messages')].content = content

\* C1 (Spec): at most one audio resource is playing at any time.
C1_AtMostOnePlaying == Cardinality(Playing) <= 1

\* C7 (SpecPrompt): the prompt sendMessage submits is the instruction of the
\* band of the response length in force when it was called, followed by the
\* literal input; it does not change while the request is in flight.
C7_PromptOfSetting ==
    [][/\ Sending => modelReq'.prompt = BandInstruction(responseLength) \o input
       /\ (modelReq # NoReq /\ modelReq' # NoReq) => modelReq'.prompt = modelReq.prompt]_vars

C7_Witness ==
    /\ modelReq.prompt =
         <<"Please provide a short, concise response (1-2 sentences). ", " ", "h", "i">>
    /\ responseLength = 10

\* C8 (SpecChat): when the model request fails with a network error, the
\* conversation gains exactly one assistant message with the fixed error text,
\* right after the user message of that send; loading returns to false and no
\* TTS generation is scheduled or started.
C8_NetworkError ==
    [][(Answered /\ modelReq.reply.kind = "network") =>
          /\ Gains("assistant", Str(ErrorText))
          /\ messages[Len(messages)].role = "user"
          /\ Tail(modelReq.prompt) = messages[Len(messages)].content.v
          /\ loading /\ ~loading'
          /\ timers' = timers /\ ttsTasks' = ttsTasks]_vars

C8_Witness ==
    /\ Len(messages) = 4
    /\ messages[2].content = Str(<<"o", "k">>)
    /\ messages[4].content = Str(ErrorText)
    /\ audios # <<>>
    /\ autoPlay /\ timers = {} /\ ttsTasks = EmptyBag /\ ~loading

\* C9 (SpecChat): for every failure of the model request (network error,
\* unparsable body, error reply without a response field) sendMessage appends
\* an assistant message with the fixed error text.
C9_FailureAppendsErrorText ==
    [][(Answered /\ modelReq.reply.kind \in {"network", "unparsable", "noResponseField"}) =>
          Gains("assistant", Str(ErrorText))]_vars

\* C10 (SpecChat): sendMessage with blank input or without a model changes
\* nothing and sends no request; otherwise the user message, with the literal
\* input, is in the conversation when the request is sent.
C10_SendGuard ==
    [][(evt = "send" /\ evt' = "none") =>
          IF IsBlank(input) \/ selectedModel = NoModel
          THEN UNCHANGED <<messages, input, loading, playingAudio, generatingAudio,
                           audioRefs, audios, timers, ttsTasks, modelReq>>
          ELSE /\ Sending /\ modelReq'.reply = NoReply
               /\ Gains("user", Str(input))]_vars

C10_Witness ==
    /\ evt = "send"
    /\ input = <<" ">> /\ selectedModel # NoModel
    /\ Len(messages) = 2 /\ audios # <<>>

\* ---- stopTTS ----
\* the step is a click on the button of message i while it shows Stop
StopClicked(i) == ClickPlay(i) /\ playingAudio = messages[i].id

\* the step is generateTTS registering and playing the audio of `task`
Registers(task) == TTSResumes(task, "allowed") \/ TTSResumes(task, "blocked")

\* generateTTS calls stopTTS(task.playingAudio) on its way, line 125
StopsOther(task) == task.playingAudio # Null /\ task.playingAudio # task.id

\* the audio registered under id is paused and rewound after the step, and
\* every other audio that existed before the step is as it was
PausedAndRewound(id) ==
    /\ id \in DOMAIN audioRefs
    /\ ~audios'[audioRefs[id]].playing
    /\ audios'[audioRefs[id]].currentTime = 0
    /\ \A b \in 1..Len(audios) : b # audioRefs[id] => audios'[b] = audios[b]

MessageIds == {messages[i].id : i \in 1..Len(messages)}

CalledAfter(later, task) == later.id = task.id /\ later.late /\ ~task.late

\* C12 (SpecPlay): a generation that registers its handle adds or replaces
\* the registry entry of its own message id and no other entry, no other
\* step changes the registry, and the entry of an id is the handle of the
\* generation requested last for it: a generation never replaces the handle
\* of a generation that was requested after it.
C12_RegistryIdempotent ==
    [][/\ \A task \in BagToSet(ttsTasks) :
            Registers(task) =>
               /\ DOMAIN audioRefs' = DOMAIN audioRefs \cup {task.id}
               /\ audioRefs'[task.id] = Len(audios')
               /\ \A id \in DOMAIN audioRefs \ {task.id} : audioRefs'[id] = audioRefs[id]
               /\ \A later \in BagToSet(ttsTasks) :
                     CalledAfter(later, task) =>
                        ~(task.id \in DOMAIN audioRefs /\ audioRefs[task.id] = later.audio)
       /\ (\A task \in BagToSet(ttsTasks) : ~Registers(task)) => audioRefs' = audioRefs]_vars

\* ---- teardown ----
\* C13 (SpecTeardown): right after the component is torn down every audio
\* resource created so far, the handles replaced in the registry included,
\* is paused and has its object URL released.
C13_TeardownReleasesAll ==
    [][(mounted /\ ~mounted') =>
          \A a \in 1..Len(audios') : ~audios'[a].playing /\ audios'[a].revoked]_vars

\* C14 (SpecLeave): after the component is torn down no audio resource is
\* created, none is registered and none starts to play, whatever request or
\* timer was pending.
C14_NoOpAfterTeardown ==
    [][~mounted =>
          /\ Len(audios') = Len(audios)
          /\ audioRefs' = audioRefs
          /\ \A a \in 1..Len(audios) : audios'[a].playing => audios[a].playing]_vars

\* ---- the retry ----
\* the first audio.play() of the call failed
FirstPlayFailed(task) ==
    \/ task.pc = "playRejected"
    \/ task.pc = "play" /\ ~audios[task.audio].playing

\* the call has returned after the step
Returned(task) == \A t \in BagToSet(ttsTasks') : t.audio # task.audio

\* the call is at `pc` after the step
At(task, pc) == [task EXCEPT !.pc = pc] \in BagToSet(ttsTasks')

\* C15 as stated: when the first play fails and an audio context can be
\* created, generateTTS goes on to retry the play.
C15_AsStated ==
    [][\A task \in BagToSet(ttsTasks), context \in {"running", "suspended"} :
          (PlaySettles(task, context) /\ FirstPlayFailed(task)) => At(task, "resume")]_vars

\* C15, amended: when the first play fails, generateTTS clears the pointer
\* and creates an audio context; it goes on to resume the context only when
\* the context is suspended, and retries the play only when the resume
\* succeeds, once: after the retry it returns.  With a running context, a
\* context that cannot be created or a resume that fails it returns without
\* a retry.  A retry that fails changes no audio, pointer or message.  An
\* audio that exists starts to play by that one retry only.
C15_RetryOnce ==
    [][/\ \A task \in BagToSet(ttsTasks), context \in {"throws", "running", "suspended"} :
            (PlaySettles(task, context) /\ FirstPlayFailed(task)) =>
               /\ mounted => playingAudio' = Null
               /\ audios' = audios
               /\ IF context = "suspended" THEN At(task, "resume") ELSE Returned(task)
       /\ \A task \in BagToSet(ttsTasks), outcome \in {"allowed", "blocked", "failed"} :
            ResumeSettles(task, outcome) =>
               /\ playingAudio' = playingAudio
               /\ IF outcome = "failed"
                  THEN Returned(task) /\ audios' = audios
                  ELSE At(task, "retry")
       /\ \A task \in BagToSet(ttsTasks) :
            RetrySettles(task) =>
               /\ Returned(task)
               /\ playingAudio' = playingAudio /\ audios' = audios /\ messages' = messages
       /\ \A a \in 1..Len(audios) :
            (~audios[a].playing /\ audios'[a].playing) =>
               \E task \in BagToSet(ttsTasks) :
                  task.audio = a /\ task.pc = "resume" /\ At(task, "retry")]_vars

\* the play was retried and failed again
C15_Witness ==
    \E task \in BagToSet(ttsTasks) :
       /\ task.pc = "retry"
       /\ ~audios[task.audio].playing
       /\ playingAudio = Null /\ mounted

\* ---- auto-play, the pointer and the indicator ----
\* C16 (SpecChat): when sendMessage handles a successful answer it appends
\* one assistant message with the response text, and it schedules one TTS
\* generation for that message if auto-play is on at that moment and none if
\* it is off.
C16_AutoPlayAtResponse ==
    [][(Answered /\ mounted /\ modelReq.reply.kind = "ok") =>
          /\ Gains("assistant", modelReq.reply.response)
          /\ IF autoPlay
             THEN \E tm \in timers' \ timers :
                     /\ timers' = timers \cup {tm}
                     /\ tm.id = messages'[Len(messages')].id
                     /\ tm.text = modelReq.reply.response
             ELSE timers' = timers]_vars

\* C18 (SpecChat): whenever no generateTTS call is under way, the pointer
\* names a message exactly when the audio registered under it is playing,
\* and it is null exactly when no audio is playing.
C18_PointerAgrees ==
    (mounted /\ ttsTasks = EmptyBag) =>
        /\ \A id \in DOMAIN audioRefs :
              (playingAudio = id) <=> audios[audioRefs[id]].playing
        /\ (playingAudio = Null) <=> (Playing = {})

\* C19 (SpecChat): the generating indicator names the message of every TTS
\* request in flight, so that no two requests are in flight for one message,
\* and it is null only when no request is in flight.
C19_GeneratingMarksInFlight ==
    mounted =>
        /\ \A task \in BagToSet(Fetching) :
              generatingAudio = task.id /\ Fetching[task] = 1
        /\ \A t1, t2 \in BagToSet(Fetching) : t1.id = t2.id => t1 = t2
        /\ generatingAudio = Null => Fetching = EmptyBag

\* ---- loading and the conversation ----
Alternating ==
    \A i \in 1..Len(messages) :
       messages[i].role = IF i % 2 = 1 THEN "user" ELSE "assistant"

\* C20 (SpecChat): while the component is mounted, loading is true exactly
\* while a model request is in flight, which is exactly while the last
\* message is a user message; the roles alternate from the first message on;
\* messages are only appended, one at a time: a user message only when no
\* request is in flight, by the step that sends one, and an assistant message
\* only by the step that handles the answer.
C20_LoadingAndAlternation ==
    /\ [](mounted => /\ loading <=> modelReq # NoReq
                     /\ loading <=> Len(messages) % 2 = 1
                     /\ Alternating)
    /\ [][\/ messages' = messages
          \/ /\ Gains("user", Str(input))
             /\ ~loading /\ modelReq = NoReq
             /\ loading' /\ Sending
          \/ /\ Gains("assistant", messages'[Len(messages')].content)
             /\ loading /\ Answered
             /\ ~loading']_vars

\* the second request has been answered with a failure and is about to be
\* handled, the first was answered by the model
C20_Witness ==
    /\ mounted /\ loading
    /\ Len(messages) = 3
    /\ messages[2].content = Str(<<"o", "k">>)
    /\ modelReq.reply.kind = "unparsable"

\* ==========================================================================
\* Properties of the TTS bridge (checked under SpecTTS)
\* ==========================================================================

\* The text the child wrote, its whole output decoded as one UTF-8 stream
WrittenText == BufferToString(written)

IsBlankLine(l) == \A i \in 1..Len(l) : l[i] \in Whitespace

\* The final non-empty line of a text, <<>> when every line is blank
RECURSIVE FinalLineOf(_)
FinalLineOf(lines) ==
    IF lines = <<>> THEN <<>>
    ELSE IF IsBlankLine(lines[Len(lines)])
         THEN FinalLineOf(SubSeq(lines, 1, Len(lines) - 1))
         ELSE lines[Len(lines)]

FinalLine == FinalLineOf(Split(WrittenText))

\* The child ran and 'close' reported it
RanAndClosed == child = "closed" /\ exitCode \in {"0", "1", "null"}

\* text is missing, empty or not a string
TextMissing(body) ==
    \/ body.kind \in {"unparsable", "null", "primitive"}
    \/ body.kind = "object" /\ body.text.t # "string"
    \/ body.kind = "object" /\ body.text = JStr(<<>>)

\* C2 as stated: every request whose text is missing, empty or not a string
\* is answered 400 { error: "Text is required" } and spawns nothing.
C2_AsStated ==
    (srvPc # "idle" /\ TextMissing(reqBody)) =>
        /\ response = ErrorResponse(400, "Text is required")
        /\ spawnArgs = <<>> /\ child = "none"

\* C2, amended: every request whose body is a JSON value other than null and
\* whose text is missing, empty or not a string is answered
\* 400 { error: "Text is required" }; a body that is not JSON, or is null, is
\* answered 500 { error: "Internal server error" }; neither spawns a process.
C2_TextRequired ==
    (srvPc # "idle" /\ TextMissing(reqBody)) =>
        /\ spawnArgs = <<>> /\ child = "none"
        /\ response = IF reqBody.kind \in {"primitive", "object"}
                      THEN ErrorResponse(400, "Text is required")
                      ELSE ErrorResponse(500, "Internal server error")

C2_Witness ==
    /\ reqBody = [kind |-> "object", text |-> JNum(<<"5">>), voice |-> JStr(<<"voices/a.wav">>)]
    /\ response.status = 400

\* C3: a run that exits with code 0 and whose output's final non-empty line is
\* a valid JSON value is answered 200 with that value as the body.
C3_RelaysFinalLine ==
    (RanAndClosed /\ exitCode = "0" /\ JSONparse(FinalLine) # ParseError) =>
        response = JsonResponse(JSONparse(FinalLine))

\* C4: a run that exits with code 0 and whose output's final non-empty line is
\* not valid JSON (or that wrote nothing) is answered
\* 500 { error: "Invalid response from TTS service" }.
C4_InvalidResponse ==
    (RanAndClosed /\ exitCode = "0" /\ JSONparse(FinalLine) = ParseError) =>
        response = ErrorResponse(500, "Invalid response from TTS service")

C4_Witness ==
    /\ RanAndClosed /\ exitCode = "0"
    /\ written = <<"1", "\n", "x", "\n">>
    /\ response.error = "Invalid response from TTS service"

\* C5: a run that exits with a non-zero code is answered
\* 500 { error: "TTS generation failed" } whatever it wrote; its output is
\* neither parsed nor relayed.
C5_GenerationFailed ==
    (RanAndClosed /\ exitCode # "0") =>
        response = ErrorResponse(500, "TTS generation failed")

C5_Witness ==
    /\ RanAndClosed /\ exitCode = "1"
    /\ JSONparse(FinalLine) # ParseError
    /\ response.error = "TTS generation failed"

\* C6: once the child has emitted 'error', the response is
\* 500 { error: "Failed to start TTS service" }, also after the 'close' that
\* follows.
C6_FailedToStart ==
    (child = "errored" \/ exitCode = "-2") =>
        response = ErrorResponse(500, "Failed to start TTS service")

C6_Witness ==
    /\ child = "closed" /\ exitCode = "-2"
    /\ response.error = "Failed to start TTS service"

\* C17 (SpecTTSLive): a request that passed validation and spawned its child
\* has no response until the child emits 'close' or 'error'; the first of
\* these events gives it the response of its handler and completes it; the
\* response never changes afterwards, whatever event follows; and if the
\* child emits one of the two events in the end, the request is answered in
\* the end.
C17_ExactlyOneResponse ==
    /\ [](srvPc = "pending" => response = NoResponse /\ child = "live")
    /\ [][/\ response # NoResponse => response' = response
          /\ (child = "live" /\ child' # "live") =>
               /\ srvPc = "pending" /\ srvPc' = "done"
               /\ response' = IF child' = "errored"
                               THEN OnError
                               ELSE OnClose(exitCode', stdout)]_vars
    /\ (srvPc = "pending") ~> (srvPc = "done" /\ response # NoResponse)

\* 'error' answered the request with the default voice, 'close' followed
C17_Witness ==
    /\ reqBody.kind = "object" /\ reqBody.voice = JStr(<<"default">>)
    /\ spawnArgs # <<>> /\ spawnArgs[2] = JStr(<<>>)
    /\ child = "closed" /\ exitCode = "-2"
    /\ srvPc = "done" /\ response = OnError

====
